---- MODULE Spec2Model ----
(* Model of the client pool of src/src/client_pool.c: a fixed list of       *)
(* clients, a queue of awaiting requests, the readiness scan of             *)
(* client_pool_get_client and the hand-off of                               *)
(* client_pool_on_client_released.                                          *)
(*                                                                          *)
(* The clients themselves are external to the file.  Each real client is    *)
(* modelled by its Busy/Idle flag: client_check_rediness reports the true   *)
(* idle state, a callback that receives a client starts a request on it,    *)
(* and a client issues its release notification only when Busy.  A NULL     *)
(* handle is what a failed client_create leaves in the list; calling a      *)
(* capability on it is undefined: the call may crash the process or return  *)
(* either answer.                                                           *)
EXTENDS Integers, Sequences, FiniteSets, TLC

VARIABLES phase, max_requests, l_clients, q_requests, busy, holders, trace,
          tasks

vars == <<phase, max_requests, l_clients, q_requests, busy, holders, trace,
          tasks>>

\* ---------------------------------------------------------------- bounds
MaxClients == 2
MaxQueueLength == 3
MaxCalls == 4

\* ---------------------------------------------------------------- inputs
\* The on_client_ready and ctx the id-th caller passes to
\* client_pool_get_client.  The pool never looks into either, so every
\* caller passes values of its own, named after the call.
CallbackOf(id) == "cb" \o ToString(id)

ContextOf(id) == "ctx" \o ToString(id)

\* Filler of the trace fields an operation does not have.
None == "none"

\* The NULL pointer: the handle client_create returns on failure.
NULL == 0

\* ------------------------------------------------------- data structures
\* PoolClient: only the handle differs between the clients of one pool.
PoolClient(h) == [client |-> h]

\* RequestData; "caller" is a ghost field, the sequence number of the
\* client_pool_get_client call that queued the request.
RequestData(cb, ctx, id) == [on_client_ready |-> cb, ctx |-> ctx, caller |-> id]

\* One invocation of an on_client_ready callback.
Invocation(cb, client, ctx, id) ==
    [on_client_ready |-> cb, client |-> client, ctx |-> ctx, caller |-> id]

\* One entry of the ghost trace of operations.
Event(op, id, cb, ctx, client, ret, calls, destroyed) ==
    [op |-> op, caller |-> id, on_client_ready |-> cb, ctx |-> ctx,
     client |-> client, ret |-> ret, calls |-> calls, destroyed |-> destroyed]

\* --------------------------------------------------------------- helpers
Handles == {l_clients[i].client : i \in 1..Len(l_clients)} \ {NULL}

NullIndexes == {i \in 1..Len(l_clients) : l_clients[i].client = NULL}

NumAcquires == Cardinality({k \in 1..Len(trace) : trace[k].op = "acquire"})

\* Mutant: the admission check lets one request too many in.
QueueFullOffByOne(q, max) == Len(q) > max

\* Mutant: a limit of 0 is taken to mean "no limit".
QueueFullUnlessZero(q, max) == max > 0 /\ Len(q) >= max

\* g_queue_get_length (q) >= conf_get_uint ("pool.max_requests_per_pool")
QueueFull(q, max) == Len(q) >= max

\* Mutant: the request is pushed at the head of the queue.
PushHead(q, data) == <<data>> \o q

\* Mutant: the queued request forgets the caller's context.
PushTailNoCtx(q, data) == Append(q, [data EXCEPT !.ctx = None])

\* g_queue_push_tail
PushTail(q, data) == Append(q, data)

\* Mutant: the request is taken from the tail of the queue.
PopTailInstead(q) == IF q = <<>> THEN <<>> ELSE <<q[Len(q)]>>

\* g_queue_pop_head: the popped head as a one-element sequence, or the
\* empty sequence for the NULL an empty queue gives
PopHead(q) == IF q = <<>> THEN <<>> ELSE <<Head(q)>>

\* Mutant: the head is looked at but stays in the queue.
PopRestKeepsHead(q) == q

\* the queue left by g_queue_pop_head
PopRest(q) == IF q = <<>> THEN q ELSE Tail(q)

\* Mutant: the answer of the readiness check is taken the wrong way round.
CheckAnswerInverted(pc, b, nullReady) ==
    IF pc.client = NULL THEN nullReady ELSE b[pc.client]

\* client_check_rediness on one list entry; nullReady is the answer an
\* undefined call on a NULL handle happens to give.
CheckRediness(pc, b, nullReady) ==
    IF pc.client = NULL THEN nullReady ELSE ~b[pc.client]

\* Mutant: the scan loop never finds a client.
ScanFindsNothing(clients, b, nullReady) == 0

\* Mutant: the scan starts at the second entry of the list.
FirstReadyAfterFirst(clients, b, nullReady) ==
    IF \E i \in 2..Len(clients) : CheckRediness(clients[i], b, nullReady)
    THEN CHOOSE i \in 2..Len(clients) :
            /\ CheckRediness(clients[i], b, nullReady)
            /\ \A j \in 2..(i-1) : ~CheckRediness(clients[j], b, nullReady)
    ELSE 0

\* Mutant: the scan walks the list from its end.
LastReady(clients, b, nullReady) ==
    IF \E i \in 1..Len(clients) : CheckRediness(clients[i], b, nullReady)
    THEN CHOOSE i \in 1..Len(clients) :
            /\ CheckRediness(clients[i], b, nullReady)
            /\ \A j \in (i+1)..Len(clients) :
                   ~CheckRediness(clients[j], b, nullReady)
    ELSE 0

\* Mutant: the scan takes the first client without asking it.
FirstClientUnchecked(clients, b, nullReady) ==
    IF Len(clients) > 0 THEN 1 ELSE 0

\* The scan loop: index of the first entry that reports ready, 0 if none.
FirstReady(clients, b, nullReady) ==
    IF \E i \in 1..Len(clients) : CheckRediness(clients[i], b, nullReady)
    THEN CHOOSE i \in 1..Len(clients) :
            /\ CheckRediness(clients[i], b, nullReady)
            /\ \A j \in 1..(i-1) : ~CheckRediness(clients[j], b, nullReady)
    ELSE 0

\* The caller's callback starts a request on the client it is given.
BusyAfterCallback(b, client) ==
    IF client = NULL THEN b ELSE [b EXCEPT ![client] = TRUE]

HoldersAfterCallback(h, client, id) ==
    IF client = NULL THEN h ELSE [h EXCEPT ![client] = @ \cup {id}]

\* ------------------------------------------------------------------ Init
Init ==
    /\ phase = "start"
    /\ max_requests \in 0..MaxQueueLength
    /\ l_clients = <<>>
    /\ q_requests = <<>>
    /\ busy = <<>>
    /\ holders = <<>>
    /\ trace = <<>>
    /\ tasks = <<>>

\* --------------------------------------------------------------- actions
\* The list client_pool_create builds: one entry per factory call, in order.
CreatedClients(client_count, created) ==
    [i \in 1..client_count |-> PoolClient(IF created[i] THEN i ELSE NULL)]

\* What client_pool_create returns.
CreateReturn(client_count, created) == "pool"

\* client_pool_create; created[i] tells whether the i-th client_create
\* succeeded.
Create(client_count, created) ==
    /\ phase = "start"
    /\ phase' = "live"
    /\ l_clients' = CreatedClients(client_count, created)
    /\ q_requests' = <<>>
    /\ busy' = [i \in 1..client_count |-> FALSE]
    /\ holders' = [i \in 1..client_count |-> {}]
    /\ trace' = Append(trace, Event("create", 0, None, None, NULL,
                                    CreateReturn(client_count, created),
                                    <<>>, <<>>))
    /\ UNCHANGED <<max_requests, tasks>>

\* client_set_on_released_cb on a NULL handle may crash inside create.
CreateCrash(client_count, created) ==
    /\ phase = "start"
    /\ \E i \in 1..client_count : ~created[i]
    /\ phase' = "crashed"
    /\ UNCHANGED <<max_requests, l_clients, q_requests, busy, holders, trace,
                   tasks>>

\* client_pool_get_client
Acquire(cb, ctx, nullReady) ==
    /\ phase = "live"
    /\ NumAcquires < MaxCalls
    /\ LET id == NumAcquires + 1
           i == FirstReady(l_clients, busy, nullReady)
       IN  IF QueueFull(q_requests, max_requests)
           THEN /\ trace' = Append(trace, Event("acquire", id, cb, ctx, NULL,
                                                "FALSE", <<>>, <<>>))
                /\ UNCHANGED <<q_requests, busy, holders>>
           ELSE IF i # 0
           THEN /\ busy' = BusyAfterCallback(busy, l_clients[i].client)
                /\ holders' = HoldersAfterCallback(holders, l_clients[i].client, id)
                /\ trace' = Append(trace, Event("acquire", id, cb, ctx, NULL, "TRUE",
                              <<Invocation(cb, l_clients[i].client, ctx, id)>>, <<>>))
                /\ UNCHANGED q_requests
           ELSE /\ q_requests' = PushTail(q_requests, RequestData(cb, ctx, id))
                /\ trace' = Append(trace, Event("acquire", id, cb, ctx, NULL,
                                                "TRUE", <<>>, <<>>))
                /\ UNCHANGED <<busy, holders>>
    /\ UNCHANGED <<phase, max_requests, l_clients, tasks>>

\* client_check_rediness on a NULL handle may crash inside the scan: the
\* scan reaches a NULL entry when no real client before it is ready.
AcquireCrash ==
    /\ phase = "live"
    /\ NumAcquires < MaxCalls
    /\ ~QueueFull(q_requests, max_requests)
    /\ \E i \in NullIndexes :
          \A j \in 1..(i-1) : l_clients[j].client # NULL /\ busy[l_clients[j].client]
    /\ phase' = "crashed"
    /\ UNCHANGED <<max_requests, l_clients, q_requests, busy, holders, trace,
                   tasks>>

\* Mutant: the waiter is given the first client of the list, not the one
\* that released.
ReleasedCallsFirstClient(q, client) ==
    LET data == PopHead(q)
    IN  IF data # <<>>
        THEN <<Invocation(data[1].on_client_ready, l_clients[1].client,
                          data[1].ctx, data[1].caller)>>
        ELSE <<>>

\* Mutant: the popped request is freed without its callback being called.
ReleasedCallsForgotten(q, client) == <<>>

\* Mutant: the popped request is used without the test for NULL.
ReleasedCallsUnchecked(q, client) ==
    LET data == PopHead(q)
    IN  IF data # <<>>
        THEN <<Invocation(data[1].on_client_ready, client, data[1].ctx,
                          data[1].caller)>>
        ELSE <<Invocation(None, client, None, 0)>>

\* The callbacks client_pool_on_client_released invokes for client.
ReleasedCalls(q, client) ==
    LET data == PopHead(q)
    IN  IF data # <<>>
        THEN <<Invocation(data[1].on_client_ready, client, data[1].ctx,
                          data[1].caller)>>
        ELSE <<>>

\* A Busy client finishes its request and notifies the pool:
\* client_pool_on_client_released
Release(client) ==
    /\ phase = "live"
    /\ client \in Handles
    /\ busy[client]
    /\ LET data == PopHead(q_requests)
           idle == [busy EXCEPT ![client] = FALSE]
           free == [holders EXCEPT ![client] = {}]
       IN  /\ q_requests' = PopRest(q_requests)
           /\ IF data # <<>>
              THEN /\ busy' = BusyAfterCallback(idle, client)
                   /\ holders' = HoldersAfterCallback(free, client, data[1].caller)
              ELSE /\ busy' = idle
                   /\ holders' = free
           /\ trace' = Append(trace, Event("release", 0, None, None, client, None,
                                           ReleasedCalls(q_requests, client), <<>>))
    /\ UNCHANGED <<phase, max_requests, l_clients, tasks>>

\* Mutant: the destroy loop starts at the second entry of the list.
DestroyCallsSkipFirst(clients) ==
    [i \in 1..(Len(clients) - 1) |-> clients[i + 1].client]

\* The handles client_pool_destroy passes to client_destroy, in order.
DestroyCalls(clients) == [i \in 1..Len(clients) |-> clients[i].client]

\* Mutant: destroy tells every queued request that no client will come.
DestroyNotifiesWaiters(q) ==
    [i \in 1..Len(q) |->
        Invocation(q[i].on_client_ready, NULL, q[i].ctx, q[i].caller)]

\* The callbacks client_pool_destroy invokes for the queued requests: none,
\* g_queue_free_full only frees them.
DestroyNotified(q) == <<>>

\* client_pool_destroy
Destroy ==
    /\ phase = "live"
    /\ phase' = "destroyed"
    /\ q_requests' = <<>>
    /\ trace' = Append(trace, Event("destroy", 0, None, None, NULL, None,
                                    DestroyNotified(q_requests),
                                    DestroyCalls(l_clients)))
    /\ UNCHANGED <<max_requests, l_clients, busy, holders, tasks>>

\* client_destroy on a NULL handle may crash inside destroy.
DestroyCrash ==
    /\ phase = "live"
    /\ NullIndexes # {}
    /\ phase' = "crashed"
    /\ UNCHANGED <<max_requests, l_clients, q_requests, busy, holders, trace,
                   tasks>>

\* The accumulators and pool names callers pass to
\* client_pool_get_task_list: an empty list or one that already holds the
\* record of another pool's client.
PoolNames == {"poolA", "poolB"}

Accumulators == {<<>>, <<[client |-> 1, pool_name |-> "poolB"]>>}

\* client_get_info: the client's info record, its pool_name not yet set.
ClientInfo(client) == [client |-> client, pool_name |-> None]

\* Mutant: the records are put in front of what the list already holds.
GetTaskListPrepend(clients, l_tasks, pool_name) ==
    [i \in 1..Len(clients) |->
        [ClientInfo(clients[i].client) EXCEPT !.pool_name = pool_name]]
    \o l_tasks

\* The list client_pool_get_task_list returns.
GetTaskList(clients, l_tasks, pool_name) ==
    l_tasks \o
    [i \in 1..Len(clients) |->
        [ClientInfo(clients[i].client) EXCEPT !.pool_name = pool_name]]

\* Mutant: the walk over the clients frees the queued requests.
QueueAfterTaskListFreed(q) == <<>>

\* The queue after client_pool_get_task_list: the function never touches
\* it.
QueueAfterTaskList(q) == q

\* client_pool_get_task_list; tasks keeps the arguments and the result of
\* the last call.
ListTasks(l_tasks, pool_name) ==
    /\ phase = "live"
    /\ tasks' = <<[l_tasks |-> l_tasks, pool_name |-> pool_name,
                   ret |-> GetTaskList(l_clients, l_tasks, pool_name)]>>
    /\ q_requests' = QueueAfterTaskList(q_requests)
    /\ UNCHANGED <<phase, max_requests, l_clients, busy, holders, trace>>

\* client_get_info on a NULL handle may crash inside the walk.
ListTasksCrash ==
    /\ phase = "live"
    /\ NullIndexes # {}
    /\ phase' = "crashed"
    /\ UNCHANGED <<max_requests, l_clients, q_requests, busy, holders, trace,
                   tasks>>

Next ==
    \/ \E n \in 0..MaxClients : \E created \in [1..n -> BOOLEAN] :
          Create(n, created)
    \/ \E n \in 0..MaxClients : \E created \in [1..n -> BOOLEAN] :
          CreateCrash(n, created)
    \/ \E cb \in {CallbackOf(NumAcquires + 1)} :
          \E ctx \in {ContextOf(NumAcquires + 1)} :
             \E nullReady \in BOOLEAN : Acquire(cb, ctx, nullReady)
    \/ AcquireCrash
    \/ \E client \in 1..MaxClients : Release(client)
    \/ Destroy
    \/ DestroyCrash

Spec == Init /\ [][Next]_vars

\* The pool with its introspection call.  client_pool_get_task_list writes
\* nothing the other operations read, so the dispatch claims are checked
\* under Spec and the claims about the call under ListSpec.
ListNext ==
    \/ Next
    \/ \E l_tasks \in Accumulators : \E pool_name \in PoolNames :
          ListTasks(l_tasks, pool_name)
    \/ ListTasksCrash

ListSpec == Init /\ [][ListNext]_vars

\* The pool under the assumption that every Busy client finishes its
\* request and issues its release notification.
FairSpec == Spec /\ \A client \in 1..MaxClients : WF_vars(Release(client))

\* ------------------------------------------------- reading the ghost trace
LastEvent == trace[Len(trace)]

\* The step just taken is the operation op.
Step(op) == Len(trace') = Len(trace) + 1 /\ LastEvent'.op = op

\* Every client_create succeeded (the capability contract of the factory).
FactoryOk == NullIndexes = {}

IsQueued(e) == e.op = "acquire" /\ e.ret = "TRUE" /\ e.calls = <<>>

IsHandOff(e) == e.op = "release" /\ e.calls # <<>>

IsScanServed(e) == e.op = "acquire" /\ e.calls # <<>>

\* The acquire events among the first n events that were queued, in order.
EnqUpTo(n) == SelectSeq(SubSeq(trace, 1, n), IsQueued)

\* The release events among the first n events that served a waiter.
HandedUpTo(n) == SelectSeq(SubSeq(trace, 1, n), IsHandOff)

\* The callers whose callback has been invoked in the first n events.
InvokedUpTo(n) ==
    UNION {{trace[k].calls[j].caller : j \in 1..Len(trace[k].calls)} :
           k \in 1..n}

\* The callers queued in the first n events whose callback has not been
\* invoked in them: the waiters in the queue after n events.
WaitingAfter(n) ==
    {trace[k].caller : k \in {j \in 1..n : IsQueued(trace[j])}}
        \ InvokedUpTo(n)

\* ------------------------------------------------------------------- C1
\* C1: no double-dispatch.  In every reachable state each client has at
\* most one holder: a client is Busy exactly when one caller that received
\* it has not been released yet, and it is never given to a second one.
C1_OneHolder ==
    \A c \in Handles :
        /\ Cardinality(holders[c]) <= 1
        /\ busy[c] <=> holders[c] # {}

\* A client was handed to a waiter by a release, and a later acquire was
\* served by the scan.
C1_Witness ==
    \E k \in 1..Len(trace) : \E j \in 1..Len(trace) :
        /\ k < j
        /\ IsHandOff(trace[k])
        /\ IsScanServed(trace[j])
        /\ FactoryOk

\* ------------------------------------------------------------------- C2
\* C2: release notifications drain the queue in FIFO order.  The k-th
\* release that finds a waiter invokes the callback of the k-th caller that
\* was queued, with that caller's callback and context and with the handle
\* of the client that released; a release finds a waiter exactly when more
\* callers were queued than served before it.
C2_FifoDrain ==
    \A n \in 1..Len(trace) :
        trace[n].op = "release" =>
            LET enq == EnqUpTo(n - 1)
                k == Len(HandedUpTo(n - 1)) + 1
            IN  IF Len(enq) >= k
                THEN trace[n].calls =
                        <<Invocation(enq[k].on_client_ready, trace[n].client,
                                     enq[k].ctx, enq[k].caller)>>
                ELSE trace[n].calls = <<>>

\* Two callers were queued while both clients were Busy, and then served
\* in turn by releases of the second client and of the first.
C2_Witness ==
    /\ FactoryOk
    /\ Len(l_clients) = 2
    /\ \E m \in 1..Len(trace) : \E n \in 1..Len(trace) :
          /\ m < n
          /\ IsHandOff(trace[m])
          /\ IsHandOff(trace[n])
          /\ trace[m].client = l_clients[2].client
          /\ trace[n].client = l_clients[1].client
          /\ Len(EnqUpTo(m)) = 2
          /\ Len(HandedUpTo(m)) = 1
          /\ Len(HandedUpTo(n)) = 2

\* ------------------------------------------------------------------- C3
\* C3: the queue of a live pool never holds more than max_requests waiters,
\* and no acquire removes or reorders a queued waiter: the queue shrinks
\* only in a release (by its head) or in destroy.
C3_NoEvict ==
    /\ Step("acquire") =>
          /\ Len(q_requests') >= Len(q_requests)
          /\ SubSeq(q_requests', 1, Len(q_requests)) = q_requests
    /\ Len(q_requests') < Len(q_requests) =>
          \/ Step("release") /\ q_requests' = Tail(q_requests)
          \/ Step("destroy")

C3_QueueBound ==
    /\ [](phase = "live" => Len(q_requests) <= max_requests)
    /\ [][C3_NoEvict]_vars

\* The queue is at its bound and the last acquire was turned away.
C3_Witness ==
    /\ phase = "live"
    /\ max_requests >= 1
    /\ Len(q_requests) = max_requests
    /\ LastEvent.op = "acquire"
    /\ LastEvent.ret = "FALSE"

\* ------------------------------------------------------------------- C4
\* Fewer than clientCount clients are Busy.
SomeClientIdle == Cardinality({c \in Handles : busy[c]}) < Len(l_clients)

\* The acquire just made was served inside the call with a client that was
\* idle, returned true and left the queue alone.
ServedSynchronously ==
    /\ LastEvent'.ret = "TRUE"
    /\ Len(LastEvent'.calls) = 1
    /\ LastEvent'.calls[1].client \in Handles
    /\ ~busy[LastEvent'.calls[1].client]
    /\ LastEvent'.calls[1].on_client_ready = LastEvent'.on_client_ready
    /\ LastEvent'.calls[1].ctx = LastEvent'.ctx
    /\ q_requests' = q_requests

\* C4 as stated: whenever fewer than clientCount clients are Busy, an
\* acquire is served synchronously, for every max_requests, 0 included.
C4_AsStated ==
    [][(Step("acquire") /\ FactoryOk /\ SomeClientIdle)
          => ServedSynchronously]_vars

\* C4 amended: whenever fewer than clientCount clients are Busy and
\* max_requests is at least 1, an acquire is served synchronously: its
\* callback is invoked inside the call with an idle client, it returns
\* true and nothing is queued.
C4_ServedWhenIdle ==
    [][(Step("acquire") /\ FactoryOk /\ SomeClientIdle /\ max_requests >= 1)
          => ServedSynchronously]_vars

\* An acquire was served by the scan after a release had left a client
\* idle, in a pool that queues.
C4_Witness ==
    /\ FactoryOk
    /\ max_requests >= 1
    /\ Len(trace) >= 3
    /\ IsScanServed(LastEvent)
    /\ trace[Len(trace) - 1].op = "release"
    /\ trace[Len(trace) - 1].calls = <<>>

\* ------------------------------------------------------------------- C5
\* C5: with every client Busy, an acquire made while the queue is shorter
\* than max_requests returns true without invoking its callback and appends
\* a waiter with its callback and context at the tail; an acquire made when
\* the queue length has reached max_requests returns false.
C5_QueueThenReject ==
    [][(Step("acquire") /\ FactoryOk /\ \A c \in Handles : busy[c]) =>
          IF Len(q_requests) < max_requests
          THEN /\ LastEvent'.ret = "TRUE"
               /\ LastEvent'.calls = <<>>
               /\ q_requests' = Append(q_requests,
                                       RequestData(LastEvent'.on_client_ready,
                                                   LastEvent'.ctx,
                                                   LastEvent'.caller))
               /\ busy' = busy
          ELSE /\ LastEvent'.ret = "FALSE"
               /\ q_requests' = q_requests]_vars

\* With a client in the pool, an acquire was queued and the next one was
\* rejected.
C5_Witness ==
    /\ FactoryOk
    /\ Len(l_clients) >= 1
    /\ Len(trace) >= 3
    /\ IsQueued(trace[Len(trace) - 1])
    /\ LastEvent.op = "acquire"
    /\ LastEvent.ret = "FALSE"

\* ------------------------------------------------------------------- C6
\* C6: acquire returns false exactly when the queue length is at least
\* max_requests at the call, and a rejected acquire invokes no callback and
\* leaves the queue and every client's state as they were.
C6_RejectExactlyWhenFull ==
    [][Step("acquire") =>
          /\ LastEvent'.ret \in {"TRUE", "FALSE"}
          /\ LastEvent'.ret = "FALSE" <=> Len(q_requests) >= max_requests
          /\ LastEvent'.ret = "FALSE" =>
                /\ LastEvent'.calls = <<>>
                /\ q_requests' = q_requests
                /\ busy' = busy
                /\ holders' = holders
                /\ l_clients' = l_clients]_vars

\* Acquires of one run were served, queued and rejected.
C6_Witness ==
    /\ phase = "live"
    /\ LastEvent.op = "acquire"
    /\ LastEvent.ret = "FALSE"
    /\ \E k \in 1..Len(trace) : IsScanServed(trace[k])
    /\ \E k \in 1..Len(trace) : IsQueued(trace[k])

\* ------------------------------------------------------------------- C7
\* The run is the scenario so far: a pool of 2 clients with max_requests 1
\* and then n operations, four acquires followed by a release of client 1.
ScenarioUpTo(n) ==
    /\ FactoryOk
    /\ Len(l_clients) = 2
    /\ max_requests = 1
    /\ Len(trace) >= n + 1
    /\ \A k \in 2..(n + 1) :
          IF k <= 5 THEN trace[k].op = "acquire"
          ELSE trace[k].op = "release" /\ trace[k].client = l_clients[1].client

\* C7: in a pool of 2 clients with max_requests = 1 the first acquire is
\* served with client 1, the second with client 2, the third is queued and
\* returns true, the fourth returns false; a release of client 1 then
\* invokes the third caller's callback with client 1 and the third
\* caller's context, and the queue is empty.
C7_Scenario ==
    /\ ScenarioUpTo(1) =>
          /\ trace[2].ret = "TRUE"
          /\ trace[2].calls = <<Invocation(trace[2].on_client_ready,
                                           l_clients[1].client, trace[2].ctx, 1)>>
    /\ ScenarioUpTo(2) =>
          /\ trace[3].ret = "TRUE"
          /\ trace[3].calls = <<Invocation(trace[3].on_client_ready,
                                           l_clients[2].client, trace[3].ctx, 2)>>
    /\ ScenarioUpTo(3) =>
          /\ trace[4].ret = "TRUE"
          /\ trace[4].calls = <<>>
    /\ ScenarioUpTo(4) =>
          /\ trace[5].ret = "FALSE"
          /\ trace[5].calls = <<>>
    /\ ScenarioUpTo(5) =>
          /\ trace[6].calls = <<Invocation(trace[4].on_client_ready,
                                           l_clients[1].client, trace[4].ctx, 3)>>
          /\ Len(trace) = 6 => q_requests = <<>>

\* The scenario has run to its end.
C7_Witness == ScenarioUpTo(5) /\ Len(trace) = 6

\* ------------------------------------------------------------------- C8
\* C8 as stated: create returns a pool exactly when every client_create
\* succeeded; a returned pool holds no client whose factory call failed.
C8_CreateFailsWithFactory ==
    Len(trace) >= 1 =>
        /\ trace[1].op = "create"
        /\ trace[1].ret = "pool" <=>
              \A i \in 1..Len(l_clients) : l_clients[i].client # NULL

\* ------------------------------------------------------------------- C9
\* C9: destroying a pool whose queue is empty calls client_destroy once
\* for every entry of the client list, and exactly once on every client.
C9_DestroyEachOnce ==
    [][(Step("destroy") /\ q_requests = <<>>) =>
          LET d == LastEvent'.destroyed
          IN  /\ Len(d) = Len(l_clients)
              /\ \A c \in Handles :
                    Cardinality({k \in 1..Len(d) : d[k] = c}) = 1]_vars

\* A pool of two clients, one of them Busy, was destroyed with nobody
\* waiting.
C9_Witness ==
    /\ phase = "destroyed"
    /\ FactoryOk
    /\ Len(l_clients) = 2
    /\ WaitingAfter(Len(trace) - 1) = {}
    /\ \E c \in Handles : busy[c]

\* ------------------------------------------------------------------ C10
\* C10: destroy invokes no callback and empties the queue, and the
\* callback of a caller that was still waiting when the pool was destroyed
\* is not invoked by any operation of the run.
C10_DroppedNeverInvoked ==
    \A n \in 1..Len(trace) :
        trace[n].op = "destroy" =>
            /\ trace[n].calls = <<>>
            /\ WaitingAfter(n - 1) \cap InvokedUpTo(Len(trace)) = {}
            /\ n = Len(trace) => q_requests = <<>>

\* A pool was destroyed while two callers were waiting for its client.
C10_Witness ==
    /\ phase = "destroyed"
    /\ FactoryOk
    /\ Len(l_clients) >= 1
    /\ Cardinality(WaitingAfter(Len(trace) - 1)) >= 2

\* ------------------------------------------------------------------ C11
\* C11: client_pool_get_task_list returns the caller's list followed by one
\* info record per client, in creation order, each carrying the supplied
\* pool name; from an empty list it returns exactly clientCount records.
C11_TaskListAppends ==
    tasks # <<>> =>
        LET t == tasks[1]
            n == Len(t.l_tasks)
        IN  /\ Len(t.ret) = n + Len(l_clients)
            /\ SubSeq(t.ret, 1, n) = t.l_tasks
            /\ \A i \in 1..Len(l_clients) :
                  t.ret[n + i] = [client |-> l_clients[i].client,
                                  pool_name |-> t.pool_name]
            /\ t.l_tasks = <<>> => Len(t.ret) = Len(l_clients)

\* The tasks of a pool of two clients were added to a list that already
\* held a record.
C11_Witness ==
    /\ tasks # <<>>
    /\ FactoryOk
    /\ Len(l_clients) = 2
    /\ tasks[1].l_tasks # <<>>
    /\ tasks[1].pool_name = "poolA"

\* ------------------------------------------------------------------ C12
\* C12: a client_pool_get_task_list call changes nothing of the pool: the
\* client list, every client's Busy/Idle state and holder, the queue and
\* its order stay as they were and no callback is invoked.
C12_TaskListPure ==
    [][tasks' # tasks =>
          /\ l_clients' = l_clients
          /\ busy' = busy
          /\ holders' = holders
          /\ q_requests' = q_requests
          /\ trace' = trace
          /\ phase' = phase]_vars

\* The tasks were listed in a pool with a Busy client and two waiters.
C12_Witness ==
    /\ tasks # <<>>
    /\ phase = "live"
    /\ FactoryOk
    /\ Len(q_requests) = 2
    /\ \E c \in Handles : busy[c]

\* ------------------------------------------------------------------ C13
\* Entry i is the first idle client: a real client that is idle, with only
\* real Busy clients before it in the list.
IsFirstIdle(i) ==
    /\ l_clients[i].client # NULL
    /\ ~busy[l_clients[i].client]
    /\ \A j \in 1..(i - 1) :
          l_clients[j].client # NULL /\ busy[l_clients[j].client]

\* C13: an acquire that passes the admission check while some client is
\* idle is served with the idle client that comes first in creation order,
\* whatever the entries after it are or answer; only that client becomes
\* Busy and nothing is queued.
C13_FirstIdleInOrder ==
    [][\A i \in 1..Len(l_clients) :
          (Step("acquire") /\ Len(q_requests) < max_requests /\ IsFirstIdle(i))
          => /\ LastEvent'.ret = "TRUE"
             /\ LastEvent'.calls =
                   <<Invocation(LastEvent'.on_client_ready, l_clients[i].client,
                                LastEvent'.ctx, LastEvent'.caller)>>
             /\ busy' = [busy EXCEPT ![l_clients[i].client] = TRUE]
             /\ q_requests' = q_requests]_vars

\* After a release left both clients of a pool idle, an acquire was served
\* with the first of them and the second stayed idle.
C13_Witness ==
    /\ phase = "live"
    /\ FactoryOk
    /\ Len(l_clients) = 2
    /\ IsScanServed(LastEvent)
    /\ LastEvent.calls[1].client = l_clients[1].client
    /\ ~busy[l_clients[2].client]
    /\ \E k \in 1..Len(trace) :
          trace[k].op = "release" /\ trace[k].client = l_clients[2].client

\* ------------------------------------------------------------------ C14
\* C14: a release of client c that finds the queue non-empty removes the
\* head waiter and nothing else, invokes that waiter's callback once with
\* c and the waiter's context, and leaves c Busy, held by that waiter;
\* the other clients are not touched.
C14_HandOffToHead ==
    [][(Step("release") /\ q_requests # <<>>) =>
          LET c == LastEvent'.client
              w == Head(q_requests)
          IN  /\ LastEvent'.calls =
                    <<Invocation(w.on_client_ready, c, w.ctx, w.caller)>>
              /\ q_requests' = Tail(q_requests)
              /\ busy[c] /\ busy'[c]
              /\ holders'[c] = {w.caller}
              /\ \A d \in Handles \ {c} :
                    busy'[d] = busy[d] /\ holders'[d] = holders[d]]_vars

\* The second client released with two callers waiting: the first of them
\* was served and the other is still queued.
C14_Witness ==
    /\ phase = "live"
    /\ FactoryOk
    /\ Len(l_clients) = 2
    /\ IsHandOff(LastEvent)
    /\ LastEvent.client = l_clients[2].client
    /\ Len(q_requests) = 1

\* ------------------------------------------------------------------ C15
\* C15: a release that finds the queue empty invokes no callback and
\* leaves the queue empty and the client Idle with no holder; and a client
\* goes from Busy to Idle only in such a release of that client.
C15_IdleRelease ==
    [][/\ (Step("release") /\ q_requests = <<>>) =>
             /\ LastEvent'.calls = <<>>
             /\ q_requests' = <<>>
             /\ busy[LastEvent'.client]
             /\ ~busy'[LastEvent'.client]
             /\ holders'[LastEvent'.client] = {}
       /\ \A c \in Handles :
             (busy[c] /\ ~busy'[c]) =>
                 /\ Step("release")
                 /\ LastEvent'.client = c
                 /\ q_requests = <<>>]_vars

\* A client released with nobody waiting and was handed out again by the
\* scan of a later acquire.
C15_Witness ==
    /\ FactoryOk
    /\ \E k \in 1..Len(trace) : \E j \in 1..Len(trace) :
          /\ k < j
          /\ trace[k].op = "release"
          /\ trace[k].calls = <<>>
          /\ IsScanServed(trace[j])
          /\ trace[j].calls[1].client = trace[k].client

\* ------------------------------------------------------------------ C16
\* C16: work conservation.  While a live pool has a waiter queued, every
\* client of the pool is Busy.
C16_WorkConservation ==
    (phase = "live" /\ q_requests # <<>>) => \A c \in Handles : busy[c]

\* A release has just served a waiter of a pool of two clients and another
\* caller is still waiting.
C16_Witness ==
    /\ phase = "live"
    /\ FactoryOk
    /\ Len(l_clients) = 2
    /\ IsHandOff(LastEvent)
    /\ LastEvent.client = l_clients[1].client
    /\ q_requests # <<>>

\* ------------------------------------------------------------------ C17
\* The invocations of caller id's callback in the run so far.
InvocationsOf(id) ==
    UNION {{<<k, j>> : j \in {i \in 1..Len(trace[k].calls) :
                                  trace[k].calls[i].caller = id}} :
           k \in 1..Len(trace)}

\* The places caller id holds in the queue.
QueuePlacesOf(id) == {i \in 1..Len(q_requests) : q_requests[i].caller = id}

\* The destroy events that found caller id waiting.
DroppedAt(id) ==
    {n \in 1..Len(trace) :
        trace[n].op = "destroy" /\ id \in WaitingAfter(n - 1)}

\* C17: every accepted acquire is in exactly one condition: its callback
\* was invoked once, or it is held once in the queue, or it was waiting
\* when the pool was destroyed; a rejected acquire is in none of them.
C17_OneFate ==
    \A k \in 1..Len(trace) :
        trace[k].op = "acquire" =>
            LET id == trace[k].caller
                n == Cardinality(InvocationsOf(id))
                     + Cardinality(QueuePlacesOf(id))
                     + Cardinality(DroppedAt(id))
            IN  IF trace[k].ret = "TRUE" THEN n = 1 ELSE n = 0

\* In one run a caller was served by the scan, one by a release, one was
\* dropped by destroy.
C17_Witness ==
    /\ phase = "destroyed"
    /\ FactoryOk
    /\ \E k \in 1..Len(trace) : IsScanServed(trace[k])
    /\ \E k \in 1..Len(trace) : IsHandOff(trace[k])
    /\ WaitingAfter(Len(trace) - 1) # {}

\* ------------------------------------------------------------------ C18
\* C18: no overtaking.  In a pool whose clients were all created, the
\* callbacks are invoked in the order in which the acquires were accepted,
\* and no acquire is served by the scan while an earlier caller waits.
C18_NoOvertaking ==
    FactoryOk =>
        /\ \A k \in 1..Len(trace) : \A m \in 1..Len(trace) :
              k < m =>
                 \A i \in 1..Len(trace[k].calls) :
                    \A j \in 1..Len(trace[m].calls) :
                       trace[k].calls[i].caller < trace[m].calls[j].caller
        /\ \A m \in 1..Len(trace) :
              IsScanServed(trace[m]) => WaitingAfter(m - 1) = {}

\* Two waiters were served by releases, the queue ran empty, and a later
\* acquire was served by the scan.
C18_Witness ==
    /\ FactoryOk
    /\ phase = "live"
    /\ IsScanServed(LastEvent)
    /\ Len(HandedUpTo(Len(trace))) = 2

\* ------------------------------------------------------------------ C19
\* C19: in a pool of at least one client, all created, whose Busy clients
\* all release in the end, the callback of every queued caller is invoked
\* in the end, unless the pool is destroyed first.
C19_WaiterServed ==
    \A id \in 1..MaxCalls :
        (/\ phase = "live"
         /\ FactoryOk
         /\ Len(l_clients) >= 1
         /\ QueuePlacesOf(id) # {})
        ~> (InvocationsOf(id) # {} \/ phase = "destroyed")

\* Three callers waited for the one client of a pool and all were served.
C19_Witness ==
    /\ phase = "live"
    /\ FactoryOk
    /\ Len(l_clients) = 1
    /\ Len(HandedUpTo(Len(trace))) = 3
    /\ q_requests = <<>>

====
